---- MODULE Spec2Model ----
(***************************************************************************)
(* Model of the SomDev Solutions API (src/main.py, src/schemas.py).        *)
(*                                                                         *)
(* State: the four MongoDB collections (service, project, interaction,     *)
(* message), the ObjectId generator, and for every server process the      *)
(* position of the request it is handling.  Every store call of a handler  *)
(* is one step, so that two processes can interleave between store calls   *)
(* and a store error can strike between two writes of one request.         *)
(*                                                                         *)
(* Optional values are sequences of length at most one: None is <<>> and   *)
(* a present value v is <<v>>.  A JSON payload is a record whose DOMAIN    *)
(* holds the keys that were sent.                                          *)
(***************************************************************************)
EXTENDS Integers, Sequences, FiniteSets, TLC

VARIABLES
    dbAvailable,   \* database.db is not None
    service,       \* db["service"], in store order
    project,       \* db["project"]
    interaction,   \* db["interaction"]
    message,       \* db["message"]
    pc,            \* per process: position in the handler
    op,            \* per process: the handler being run
    args,          \* per process: the validated arguments of the handler
    loc,           \* per process: locals of the handler
    resp,          \* per process: the response of the last finished request
    before         \* per process: the collections when the request started

vars == <<dbAvailable, service, project, interaction, message,
          pc, op, args, loc, resp, before>>

----------------------------------------------------------------------------
(* Bounds of the model *)

\* The documents clients may add (interactions and chat messages together)
MaxDocs == 3
\* The same under a failing store, where every partial seeding is reachable
MaxDocsErr == 2

\* The server processes
Procs == {1, 2}

None == <<>>
Some(v) == <<v>>

----------------------------------------------------------------------------
(* Helpers on sequences *)

Range(s) == {s[i] : i \in 1..Len(s)}

\* The values of a record
Range1(f) == {f[k] : k \in DOMAIN f}

RECURSIVE SumCounts(_)
SumCounts(rows) ==
    IF rows = <<>> THEN 0 ELSE Head(rows).count + SumCounts(Tail(rows))

\* The number of positions of s holding an element that satisfies Test
CountIf(s, Test(_)) == Cardinality({i \in 1..Len(s) : Test(s[i])})

----------------------------------------------------------------------------
(* Identifiers *)

\* An ObjectId is unique in the whole store: the n-th document inserted into
\* collection c gets [c |-> c, n |-> n] (documents are never deleted)
NewId(c, coll) == [c |-> c, n |-> Len(coll) + 1]

\* str(ObjectId)
OidStr(id) == id.c \o "-" \o ToString(id.n)

\* oid_str: the document with "_id" replaced by "id" = str(_id)
oid_str_doc(d) ==
    IF "_id" \in DOMAIN d
    THEN [k \in (DOMAIN d \ {"_id"}) \cup {"id"} |->
              IF k = "id" THEN OidStr(d._id) ELSE d[k]]
    ELSE d

oid_str(docs) == [i \in 1..Len(docs) |-> oid_str_doc(docs[i])]

\* insert_one: the store assigns a new ObjectId and appends the document
InsertOne(c, coll, doc) == Append(coll, [_id |-> NewId(c, coll)] @@ doc)

\* database.create_document: the dumped model is inserted as one document
\* (its timestamps are read by nothing and left out)
create_document(c, coll, data) == InsertOne(c, coll, data)

----------------------------------------------------------------------------
(* Seed data *)

default_services ==
    << [title |-> "Custom Web Apps", category |-> "Development"],
       [title |-> "AI Integrations", category |-> "AI"],
       [title |-> "Cloud & DevOps", category |-> "Cloud"],
       [title |-> "UI/UX Design", category |-> "Design"] >>

default_projects ==
    << [title |-> "FinTech Analytics Suite", tags |-> <<"React", "FastAPI", "Kafka", "Postgres">>],
       [title |-> "E-commerce Headless Storefront", tags |-> <<"Next.js", "Stripe", "Algolia">>],
       [title |-> "Healthcare Telemedicine Platform", tags |-> <<"WebRTC", "AI", "MongoDB">>] >>

\* A faulty loop body that inserts the first default record at every iteration
SeedServiceMutFirst(i) == default_services[1]

\* The record the seeding loop inserts at its i-th iteration
SeedService(i) == default_services[i]

SeedProject(i) == default_projects[i]

\* A faulty seeder that leaves out the emptiness test
NeedsSeedMutAlways(coll) == TRUE

\* count_documents({}) == 0
NeedsSeed(coll) == Len(coll) = 0

\* Position of a title in ascending lexicographic (code point) order, the
\* order of .sort("title") on the titles the seeder writes
TitleRank(t) ==
    CASE t = "AI Integrations" -> 1
      [] t = "Cloud & DevOps" -> 2
      [] t = "Custom Web Apps" -> 3
      [] t = "E-commerce Headless Storefront" -> 4
      [] t = "FinTech Analytics Suite" -> 5
      [] t = "Healthcare Telemedicine Platform" -> 6
      [] t = "UI/UX Design" -> 7

RECURSIVE InsertByTitle(_, _)
InsertByTitle(sorted, d) ==
    IF sorted = <<>> THEN <<d>>
    ELSE IF TitleRank(Head(sorted).title) <= TitleRank(d.title)
         THEN <<Head(sorted)>> \o InsertByTitle(Tail(sorted), d)
         ELSE <<d>> \o sorted

RECURSIVE SortByTitle(_)
SortByTitle(docs) ==
    IF docs = <<>> THEN <<>>
    ELSE InsertByTitle(SortByTitle(SubSeq(docs, 1, Len(docs) - 1)), docs[Len(docs)])

----------------------------------------------------------------------------
(* schemas.Interaction and the request payloads *)

InteractionTypes == {"view", "order"}

\* The id string of the first service ever inserted
FirstServiceId == OidStr([c |-> "service", n |-> 1])

\* The service_id strings a client tracks: the word the analytics uses as its
\* sentinel, the id of a service, and an id no service has
ServiceIdStrings == {"unknown", FirstServiceId, "bogus"}

TrackKeys == {"user_id", "service_id", "type"}

TrackFieldValues(k) ==
    CASE k = "user_id" -> {Some("u1")}
      [] k = "service_id" -> {None} \cup {Some(s) : s \in ServiceIdStrings}
      [] k = "type" -> {Some("view"), Some("order"), Some("invalid")}

TrackValues == UNION {TrackFieldValues(k) : k \in TrackKeys}

\* JSON bodies posted to /api/track: service_id may be missing, null or a
\* string; a required key may be missing or null, the type may be no member
\* of the enum
TrackPayloads ==
    LET all == UNION { {f \in [keys -> TrackValues \cup {None}] :
                            \A k \in keys : f[k] \in TrackFieldValues(k) \cup {None}}
                       : keys \in SUBSET TrackKeys }
    IN  {f \in all :
            \/ TrackKeys \ {"service_id"} \subseteq DOMAIN f
            \/ DOMAIN f \in {{"user_id"}, {"type"}} /\ None \notin Range1(f)}

\* A faulty schema whose type is a plain str instead of the Literal
ValidInteractionMutAnyType(payload) ==
    /\ "user_id" \in DOMAIN payload /\ payload.user_id # None
    /\ "type" \in DOMAIN payload /\ payload.type # None

\* pydantic validation of Interaction: user_id and type are required,
\* type is Literal["view", "order"], service_id is optional
ValidInteraction(payload) ==
    /\ "user_id" \in DOMAIN payload /\ payload.user_id # None
    /\ "type" \in DOMAIN payload /\ payload.type # None
    /\ payload.type[1] \in InteractionTypes

\* The validated model: a missing service_id takes its default None
\* (details, default {}, is never sent and never read; it is left out)
ParseInteraction(payload) ==
    [user_id |-> payload.user_id[1],
     service_id |-> IF "service_id" \in DOMAIN payload THEN payload.service_id ELSE None,
     type |-> payload.type[1]]

\* Query parameters of /api/analytics
AnalyticsTypeParams == {None, Some("view"), Some("order"), Some("click")}
AnalyticsServiceParams == {None, Some(""), Some(FirstServiceId)}

\* Literal["view", "order"] or None
ValidAnalyticsType(type) == type = None \/ type[1] \in InteractionTypes

----------------------------------------------------------------------------
(* The analytics pipeline *)

\* Python truthiness of an Optional[str]: None and "" are falsy
Truthy(opt) == opt # None /\ opt[1] # ""

\* match = {}; if type: match["type"] = type; if service_id: ...
BuildMatch(type, service_id) ==
    [k \in (IF Truthy(type) THEN {"type"} ELSE {}) \cup
           (IF Truthy(service_id) THEN {"service_id"} ELSE {}) |->
        IF k = "type" THEN type[1] ELSE service_id[1]]

\* $match: equality on every key of match
Matches(doc, match) ==
    /\ "type" \in DOMAIN match => doc.type = match.type
    /\ "service_id" \in DOMAIN match => doc.service_id = Some(match.service_id)

\* if match: pipeline.append({"$match": match})
MatchStage(docs, match) ==
    IF DOMAIN match = {} THEN docs
    ELSE SelectSeq(docs, LAMBDA d : Matches(d, match))

GroupKey(doc) == [service_id |-> doc.service_id, type |-> doc.type]

\* A faulty $group that does not add to the count of an existing bucket
GroupAddMutNoSum(acc, key) ==
    IF \E j \in 1..Len(acc) : acc[j]._id = key
    THEN acc
    ELSE Append(acc, [_id |-> key, count |-> 1])

\* $group with count: {"$sum": 1}: one more document for the bucket of key
GroupAdd(acc, key) ==
    IF \E j \in 1..Len(acc) : acc[j]._id = key
    THEN [j \in 1..Len(acc) |->
             IF acc[j]._id = key THEN [acc[j] EXCEPT !.count = @ + 1] ELSE acc[j]]
    ELSE Append(acc, [_id |-> key, count |-> 1])

RECURSIVE GroupStage(_)
GroupStage(docs) ==
    IF docs = <<>> THEN <<>>
    ELSE GroupAdd(GroupStage(SubSeq(docs, 1, Len(docs) - 1)), GroupKey(docs[Len(docs)]))

\* A faulty $sort {"count": 1}, ascending
RECURSIVE InsertByCountMutAsc(_, _)
InsertByCountMutAsc(sorted, row) ==
    IF sorted = <<>> THEN <<row>>
    ELSE IF Head(sorted).count <= row.count
         THEN <<Head(sorted)>> \o InsertByCountMutAsc(Tail(sorted), row)
         ELSE <<row>> \o sorted

\* $sort {"count": -1}: rows with equal counts keep the order they came in
RECURSIVE InsertByCount(_, _)
InsertByCount(sorted, row) ==
    IF sorted = <<>> THEN <<row>>
    ELSE IF Head(sorted).count >= row.count
         THEN <<Head(sorted)>> \o InsertByCount(Tail(sorted), row)
         ELSE <<row>> \o sorted

RECURSIVE SortStage(_)
SortStage(rows) ==
    IF rows = <<>> THEN <<>>
    ELSE InsertByCount(SortStage(SubSeq(rows, 1, Len(rows) - 1)), rows[Len(rows)])

\* The orders in which the store may hand the buckets of $group to $sort
GroupOrders(rows) ==
    {[i \in 1..Len(rows) |-> rows[f[i]]] : f \in Permutations(1..Len(rows))}

\* services_map = {str(s["_id"]): s["title"] for s in db["service"].find(...)}
ServicesMap(services) ==
    [k \in {OidStr(s._id) : s \in Range(services)} |->
        (CHOOSE s \in Range(services) : OidStr(s._id) = k).title]

\* row["_id"].get("service_id") or "unknown"
RowSid(row) ==
    IF Truthy(row._id.service_id) THEN row._id.service_id[1] ELSE "unknown"

\* services_map.get(sid, "(General)" if sid == "unknown" else "Unknown")
RowTitle(sid, services_map) ==
    IF sid \in DOMAIN services_map THEN services_map[sid]
    ELSE IF sid = "unknown" THEN "(General)" ELSE "Unknown"

LabelRow(row, services_map) ==
    [service_id |-> RowSid(row),
     service_title |-> RowTitle(RowSid(row), services_map),
     type |-> row._id.type,
     count |-> row.count]

\* for row in data: result.append({...})
LabelStage(data, services_map) ==
    [i \in 1..Len(data) |-> LabelRow(data[i], services_map)]

----------------------------------------------------------------------------
(* The chatbot *)

\* A chat message is modelled by the set of keyword groups that occur in
\* message.strip().lower()
ChatKeywordGroups == {"services", "projects", "pricing"}
ChatMessages == {{}, {"projects"}, {"pricing"}, {"services", "pricing"}}

\* The if / elif chain over the keyword lists
ChatCategory(msg) ==
    IF "services" \in msg THEN "services"
    ELSE IF "projects" \in msg THEN "projects"
    ELSE IF "pricing" \in msg THEN "pricing"
    ELSE "fallback"

\* The answer: its canned text and one bullet per catalog document read
ChatAnswer(msg, services, projects) ==
    CASE ChatCategory(msg) = "services" ->
           [text |-> "services", bullets |-> [i \in 1..Len(services) |-> services[i].title]]
      [] ChatCategory(msg) = "projects" ->
           [text |-> "projects", bullets |-> [i \in 1..Len(projects) |-> projects[i].title]]
      [] ChatCategory(msg) = "pricing" -> [text |-> "pricing", bullets |-> <<>>]
      [] OTHER -> [text |-> "fallback", bullets |-> <<>>]

----------------------------------------------------------------------------
(* Requests *)

Colls == [service |-> service, project |-> project,
          interaction |-> interaction, message |-> message]

NoLocals == [i |-> 0, rows |-> <<>>, answer |-> <<>>]

SeedPcs == {"seed_count_service", "seed_insert_service",
            "seed_count_project", "seed_insert_project"}

\* A handler starts: its first statement is ensure_seed_data()
Begin(p, o, a) ==
    /\ pc[p] = "done"
    /\ pc' = [pc EXCEPT ![p] = "seed_count_service"]
    /\ op' = [op EXCEPT ![p] = o]
    /\ args' = [args EXCEPT ![p] = a]
    /\ loc' = [loc EXCEPT ![p] = NoLocals]
    /\ resp' = [resp EXCEPT ![p] = [status |-> 0]]
    /\ before' = [before EXCEPT ![p] = Colls]
    /\ UNCHANGED <<dbAvailable, service, project, interaction, message>>

\* The framework rejects the request before the handler is called
Reject(p, o, a) ==
    /\ pc[p] = "done"
    /\ op' = [op EXCEPT ![p] = o]
    /\ args' = [args EXCEPT ![p] = a]
    /\ loc' = [loc EXCEPT ![p] = NoLocals]
    /\ resp' = [resp EXCEPT ![p] = [status |-> 422]]
    /\ before' = [before EXCEPT ![p] = Colls]
    /\ UNCHANGED <<dbAvailable, service, project, interaction, message, pc>>

\* The handler returns body
Return(p, body) ==
    /\ pc' = [pc EXCEPT ![p] = "done"]
    /\ resp' = [resp EXCEPT ![p] = [status |-> 200, body |-> body]]

\* ensure_seed_data returns: on_startup is over, a handler goes on
SeedReturn(p) ==
    IF op[p] = "on_startup"
    THEN pc' = [pc EXCEPT ![p] = "done"]
    ELSE pc' = [pc EXCEPT ![p] = "body"]

----------------------------------------------------------------------------
(* on_startup and ensure_seed_data *)

on_startup(p) ==
    /\ pc[p] = "boot"
    /\ pc' = [pc EXCEPT ![p] = "seed_count_service"]
    /\ op' = [op EXCEPT ![p] = "on_startup"]
    /\ before' = [before EXCEPT ![p] = Colls]
    /\ UNCHANGED <<dbAvailable, service, project, interaction, message,
                   args, loc, resp>>

\* if db is None: return;  if db["service"].count_documents({}) == 0:
SeedCountServices(p) ==
    /\ pc[p] = "seed_count_service"
    /\ IF ~dbAvailable
       THEN SeedReturn(p) /\ UNCHANGED loc
       ELSE IF NeedsSeed(service)
            THEN /\ pc' = [pc EXCEPT ![p] = "seed_insert_service"]
                 /\ loc' = [loc EXCEPT ![p].i = 1]
            ELSE /\ pc' = [pc EXCEPT ![p] = "seed_count_project"]
                 /\ UNCHANGED loc
    /\ UNCHANGED <<dbAvailable, service, project, interaction, message,
                   op, args, resp, before>>

\* for s in default_services: db["service"].insert_one({**s})
SeedInsertService(p) ==
    /\ pc[p] = "seed_insert_service"
    /\ service' = InsertOne("service", service, SeedService(loc[p].i))
    /\ IF loc[p].i < Len(default_services)
       THEN /\ loc' = [loc EXCEPT ![p].i = @ + 1]
            /\ UNCHANGED pc
       ELSE /\ pc' = [pc EXCEPT ![p] = "seed_count_project"]
            /\ UNCHANGED loc
    /\ UNCHANGED <<dbAvailable, project, interaction, message, op, args, resp, before>>

\* if db["project"].count_documents({}) == 0:
SeedCountProjects(p) ==
    /\ pc[p] = "seed_count_project"
    /\ IF NeedsSeed(project)
       THEN /\ pc' = [pc EXCEPT ![p] = "seed_insert_project"]
            /\ loc' = [loc EXCEPT ![p].i = 1]
       ELSE /\ SeedReturn(p)
            /\ UNCHANGED loc
    /\ UNCHANGED <<dbAvailable, service, project, interaction, message,
                   op, args, resp, before>>

\* for p in default_projects: db["project"].insert_one({**p})
SeedInsertProject(p) ==
    /\ pc[p] = "seed_insert_project"
    /\ project' = InsertOne("project", project, SeedProject(loc[p].i))
    /\ IF loc[p].i < Len(default_projects)
       THEN /\ loc' = [loc EXCEPT ![p].i = @ + 1]
            /\ UNCHANGED pc
       ELSE /\ SeedReturn(p)
            /\ UNCHANGED loc
    /\ UNCHANGED <<dbAvailable, service, interaction, message, op, args, resp, before>>

----------------------------------------------------------------------------
(* GET /api/services, GET /api/projects *)

list_services(p) ==
    /\ Begin(p, "list_services", <<>>)

ListServicesFind(p) ==
    /\ pc[p] = "body" /\ op[p] = "list_services" /\ dbAvailable
    /\ Return(p, oid_str(SortByTitle(service)))
    /\ UNCHANGED <<dbAvailable, service, project, interaction, message,
                   op, args, loc, before>>

list_projects(p) ==
    /\ Begin(p, "list_projects", <<>>)

ListProjectsFind(p) ==
    /\ pc[p] = "body" /\ op[p] = "list_projects" /\ dbAvailable
    /\ Return(p, oid_str(SortByTitle(project)))
    /\ UNCHANGED <<dbAvailable, service, project, interaction, message,
                   op, args, loc, before>>

----------------------------------------------------------------------------
(* POST /api/track *)

track_interaction(p, maxDocs) ==
    \E payload \in TrackPayloads :
        IF ValidInteraction(payload)
        THEN /\ Len(interaction) + Len(message) + 1 <= maxDocs
             /\ Begin(p, "track_interaction", payload)
        ELSE Reject(p, "track_interaction", payload)

\* create_document("interaction", payload): the dumped model is inserted and
\* the string of its new id returned
TrackInsert(p) ==
    /\ pc[p] = "body" /\ op[p] = "track_interaction" /\ dbAvailable
    /\ interaction' = create_document("interaction", interaction, ParseInteraction(args[p]))
    /\ Return(p, [ok |-> TRUE, id |-> OidStr(NewId("interaction", interaction))])
    /\ UNCHANGED <<dbAvailable, service, project, message, op, args, loc, before>>

----------------------------------------------------------------------------
(* GET /api/analytics *)

analytics(p) ==
    \E type \in AnalyticsTypeParams, service_id \in AnalyticsServiceParams :
        IF ValidAnalyticsType(type)
        THEN Begin(p, "analytics", [type |-> type, service_id |-> service_id])
        ELSE Reject(p, "analytics", [type |-> type, service_id |-> service_id])

\* data = list(db["interaction"].aggregate(pipeline))
AnalyticsAggregate(p) ==
    /\ pc[p] = "body" /\ op[p] = "analytics" /\ dbAvailable
    /\ \E grouped \in GroupOrders(GroupStage(MatchStage(interaction,
                          BuildMatch(args[p].type, args[p].service_id)))) :
           loc' = [loc EXCEPT ![p].rows = SortStage(grouped)]
    /\ pc' = [pc EXCEPT ![p] = "analytics_join"]
    /\ UNCHANGED <<dbAvailable, service, project, interaction, message,
                   op, args, resp, before>>

\* services_map = ... db["service"].find(...); the loop over data; return
AnalyticsJoin(p) ==
    /\ pc[p] = "analytics_join"
    /\ Return(p, [ok |-> TRUE, data |-> LabelStage(loc[p].rows, ServicesMap(service))])
    /\ UNCHANGED <<dbAvailable, service, project, interaction, message,
                   op, args, loc, before>>

----------------------------------------------------------------------------
(* POST /api/chat *)

chat_bot(p, maxDocs) ==
    \E msg \in ChatMessages :
        /\ Len(interaction) + Len(message) + 2 <= maxDocs
        /\ Begin(p, "chat_bot", [user_id |-> "u1", message |-> msg])

\* create_document("message", Message(role="user", ...))
ChatInsertUser(p) ==
    /\ pc[p] = "body" /\ op[p] = "chat_bot" /\ dbAvailable
    /\ message' = create_document("message", message, [user_id |-> args[p].user_id, role |-> "user",
                                      content |-> args[p].message])
    /\ pc' = [pc EXCEPT ![p] = "chat_find"]
    /\ UNCHANGED <<dbAvailable, service, project, interaction, op, args, loc, resp, before>>

\* The if / elif chain: the catalog is read for two of the four categories
ChatFind(p) ==
    /\ pc[p] = "chat_find"
    /\ loc' = [loc EXCEPT ![p].answer = ChatAnswer(args[p].message, service, project)]
    /\ pc' = [pc EXCEPT ![p] = "chat_insert_assistant"]
    /\ UNCHANGED <<dbAvailable, service, project, interaction, message,
                   op, args, resp, before>>

\* create_document("message", Message(role="assistant", ...)); return
ChatInsertAssistant(p) ==
    /\ pc[p] = "chat_insert_assistant"
    /\ message' = create_document("message", message, [user_id |-> args[p].user_id, role |-> "assistant",
                                      content |-> loc[p].answer])
    /\ Return(p, [ok |-> TRUE, answer |-> loc[p].answer])
    /\ UNCHANGED <<dbAvailable, service, project, interaction, op, args, loc, before>>

----------------------------------------------------------------------------
(* Store errors *)

\* The positions at which the handler is about to call the store
AtStoreCall(p) ==
    \/ pc[p] \in SeedPcs /\ dbAvailable
    \/ pc[p] \in {"body", "analytics_join", "chat_insert_assistant"}
    \/ pc[p] = "chat_find" /\ ChatCategory(args[p].message) \in {"services", "projects"}

\* The store call raises (or db is None in the handler's body).  Only
\* on_startup wraps ensure_seed_data in try / except; in a handler the
\* exception ends the request with a 500 response
StoreError(p) ==
    /\ AtStoreCall(p)
    /\ pc' = [pc EXCEPT ![p] = "done"]
    /\ resp' = [resp EXCEPT ![p] =
                   IF op[p] = "on_startup" THEN [status |-> 0]
                   ELSE [status |-> 500,
                         raised_in |-> IF pc[p] \in SeedPcs THEN "ensure_seed_data"
                                       ELSE op[p]]]
    /\ UNCHANGED <<dbAvailable, service, project, interaction, message,
                   op, args, loc, before>>

----------------------------------------------------------------------------
(* Specifications *)

InitProcs ==
    /\ pc = [p \in Procs |-> "boot"]
    /\ op = [p \in Procs |-> "none"]
    /\ args = [p \in Procs |-> <<>>]
    /\ loc = [p \in Procs |-> NoLocals]
    /\ resp = [p \in Procs |-> [status |-> 0]]
    /\ before = [p \in Procs |-> [service |-> <<>>, project |-> <<>>,
                                  interaction |-> <<>>, message |-> <<>>]]

InitStore ==
    /\ service = <<>> /\ project = <<>> /\ interaction = <<>> /\ message = <<>>

Init == dbAvailable = TRUE /\ InitStore /\ InitProcs

InitErr == dbAvailable \in BOOLEAN /\ InitStore /\ InitProcs

Seeder(p) ==
    \/ SeedCountServices(p)
    \/ SeedInsertService(p)
    \/ SeedCountProjects(p)
    \/ SeedInsertProject(p)

Handlers(p, maxDocs) ==
    \/ on_startup(p)
    \/ Seeder(p)
    \/ list_services(p)
    \/ ListServicesFind(p)
    \/ list_projects(p)
    \/ ListProjectsFind(p)
    \/ track_interaction(p, maxDocs)
    \/ TrackInsert(p)
    \/ analytics(p)
    \/ AnalyticsAggregate(p)
    \/ AnalyticsJoin(p)
    \/ chat_bot(p, maxDocs)
    \/ ChatInsertUser(p)
    \/ ChatFind(p)
    \/ ChatInsertAssistant(p)

\* One server process, a healthy store
Next == Handlers(1, MaxDocs)

Spec == Init /\ [][Next]_vars

\* One server process, a store that may fail at any call or be missing
NextErr == Handlers(1, MaxDocsErr) \/ StoreError(1)

SpecErr == InitErr /\ [][NextErr]_vars

\* Two server processes start up and serve the catalog at the same time
NextConc ==
    \E p \in Procs :
        \/ on_startup(p)
        \/ Seeder(p)
        \/ list_services(p)
        \/ ListServicesFind(p)

SpecConc == Init /\ [][NextConc]_vars

----------------------------------------------------------------------------
(* Properties *)

Finished(p, o) == pc[p] = "done" /\ op[p] = o

Answered(p, o) == Finished(p, o) /\ resp[p].status = 200

Failed(p) == pc[p] = "done" /\ resp[p].status = 500

\* The documents of coll without their ids
Contents(coll) ==
    [i \in 1..Len(coll) |-> [k \in DOMAIN coll[i] \ {"_id"} |-> coll[i][k]]]

Occurrences(coll, rec) == Cardinality({i \in 1..Len(coll) : Contents(coll)[i] = rec})

\* C1: analytics called with no filter returns groups whose counts sum to the
\* number of stored interactions.
C1_UnfilteredCountsSumToTotal ==
    \A p \in Procs :
        (Answered(p, "analytics") /\ args[p].type = None /\ args[p].service_id = None)
            => SumCounts(resp[p].body.data) = Len(interaction)

\* Three interactions in two buckets, reported without filter
C1_Witness ==
    /\ Answered(1, "analytics") /\ args[1].type = None /\ args[1].service_id = None
    /\ Len(interaction) = 3
    /\ Len(resp[1].body.data) = 2

\* C2: for every combination of the filters, a supplied service_id being any
\* string compared by plain equality, every returned group satisfies all given
\* filters and the counts sum to the number of interactions satisfying them.
C2_FiltersSelectExactly ==
    \A p \in Procs :
        Answered(p, "analytics") =>
            LET t == args[p].type
                s == args[p].service_id
                data == resp[p].body.data
                Passes(d) == /\ t # None => d.type = t[1]
                             /\ s # None => d.service_id = s
            IN  /\ \A i \in 1..Len(data) :
                       /\ t # None => data[i].type = t[1]
                       /\ s # None => data[i].service_id = s[1]
                /\ SumCounts(data) = CountIf(interaction, Passes)

\* C3: a bucket whose service_id is the id of a stored service is labelled with
\* that service's title, a bucket of interactions without service_id with
\* "(General)", and a bucket keyed by any other service_id string with "Unknown".
C3_LabelsResolve ==
    \A p \in Procs :
        Answered(p, "analytics") =>
            \A i \in 1..Len(loc[p].rows) :
                LET sid == loc[p].rows[i]._id.service_id
                    title == resp[p].body.data[i].service_title
                IN  IF sid = None THEN title = "(General)"
                    ELSE IF \E sv \in Range(service) : OidStr(sv._id) = sid[1]
                         THEN \E sv \in Range(service) :
                                  OidStr(sv._id) = sid[1] /\ title = sv.title
                         ELSE title = "Unknown"

\* C4: the records analytics returns are in descending order of count, and
\* they are the sorted buckets, one record per bucket in the same order.
C4_SortedByCountDescending ==
    \A p \in Procs :
        Answered(p, "analytics") =>
            LET data == resp[p].body.data
                rows == loc[p].rows
            IN  /\ \A i \in 1..(Len(data) - 1) : data[i].count >= data[i + 1].count
                /\ Len(data) = Len(rows)
                /\ \A i \in 1..Len(data) :
                       /\ data[i].count = rows[i].count
                       /\ data[i].type = rows[i]._id.type

\* A bucket of two interactions is reported before a bucket of one
C4_Witness ==
    /\ Answered(1, "analytics")
    /\ Len(resp[1].body.data) = 2
    /\ resp[1].body.data[1].count = 2
    /\ resp[1].body.data[2].count = 1

\* C5: a track request whose payload lacks a required field or has a type
\* outside {view, order} is rejected and leaves every collection unchanged; one
\* with a valid payload appends exactly one document to the interaction
\* collection, holding the payload, and returns the id of that document.
C5_TrackValidatesBeforeWriting ==
    \A p \in Procs :
        Finished(p, "track_interaction") =>
            LET payload == args[p]
                Has(k) == k \in DOMAIN payload /\ payload[k] # None
            IN  IF Has("user_id") /\ Has("type") /\ payload.type[1] \in {"view", "order"}
                THEN /\ resp[p].status = 200
                     /\ Len(interaction) = Len(before[p].interaction) + 1
                     /\ SubSeq(interaction, 1, Len(interaction) - 1) = before[p].interaction
                     /\ resp[p].body.id = OidStr(interaction[Len(interaction)]._id)
                     /\ interaction[Len(interaction)].type = payload.type[1]
                     /\ interaction[Len(interaction)].user_id = payload.user_id[1]
                     /\ message = before[p].message
                ELSE /\ resp[p].status = 422
                     /\ Colls = before[p]

\* A payload with a type outside the enum is rejected after two were stored
C5_Witness ==
    /\ Finished(1, "track_interaction")
    /\ "type" \in DOMAIN args[1] /\ args[1].type = Some("invalid")
    /\ resp[1].status = 422
    /\ Len(interaction) = 2
    /\ service # <<>>

\* C6: called one after the other, the first ensure_seed_data fills the empty
\* collections with the 4 default services and the 3 default projects, every
\* later call leaves both counts unchanged, and a collection that held a record
\* when a call started is not written by that call.
C6_SeedingIdempotent ==
    \A p \in Procs :
        /\ pc[p] \notin SeedPcs \cup {"boot"} =>
               /\ Contents(service) = default_services
               /\ Contents(project) = default_projects
        /\ (pc[p] # "boot" /\ op[p] # "on_startup") =>
               /\ Len(service) = Len(before[p].service)
               /\ Len(project) = Len(before[p].project)
        /\ (pc[p] # "boot" /\ before[p].service # <<>>) => service = before[p].service
        /\ (pc[p] # "boot" /\ before[p].project # <<>>) => project = before[p].project

\* A handler has seeded again over the full collections and answered
C6_Witness ==
    /\ Answered(1, "list_projects")
    /\ before[1].service # <<>> /\ before[1].project # <<>>
    /\ Len(service) = 4 /\ Len(project) = 3

\* C7: a store error raised by the seeder inside a handler never fails the
\* request.
C7_SeedErrorsSwallowed ==
    \A p \in Procs : ~(Failed(p) /\ resp[p].raised_in = "ensure_seed_data")

\* C8: when two seeder runs interleave on empty collections, once both have
\* finished each reference collection holds only default records, every default
\* record the same number of times, once or twice, under distinct ids.
C8_RaceOnlyDuplicates ==
    (\A p \in Procs : pc[p] = "done") =>
        /\ \E n \in {1, 2} :
               /\ Len(service) = n * Len(default_services)
               /\ \A k \in 1..Len(default_services) :
                      Occurrences(service, default_services[k]) = n
        /\ \E n \in {1, 2} :
               /\ Len(project) = n * Len(default_projects)
               /\ \A k \in 1..Len(default_projects) :
                      Occurrences(project, default_projects[k]) = n
        /\ \A i, j \in 1..Len(service) : service[i]._id = service[j]._id => i = j
        /\ \A i, j \in 1..Len(project) : project[i]._id = project[j]._id => i = j

\* Both seeders have finished and both inserted: the seed rows are duplicated
C8_Witness ==
    /\ \A p \in Procs : pc[p] = "done"
    /\ Len(service) = 2 * Len(default_services)
    /\ Len(project) = 2 * Len(default_projects)

\* C9: no two records of one analytics response share the same
\* (service_id, type) pair.
C9_OneRecordPerBucket ==
    \A p \in Procs :
        Answered(p, "analytics") =>
            LET data == resp[p].body.data
            IN  \A i, j \in 1..Len(data) :
                    (data[i].service_id = data[j].service_id /\ data[i].type = data[j].type)
                        => i = j

\* C10: a request that fails on a store error leaves all four collections as
\* they were when the request started.
C10_FailedRequestsAtomic ==
    \A p \in Procs : Failed(p) => Colls = before[p]

====
